---------------------------- MODULE Spec2Model ----------------------------
(***************************************************************************)
(* scripts/claude_proxy.py: an HTTP server (HTTPServer + ClaudeProxyHandler)*)
(* that answers GET /health and POST /v1/messages; the latter flattens a   *)
(* chat request into one prompt, runs `claude -p <prompt>` with a timeout  *)
(* and reshapes the command's output into an Anthropic-style response.     *)
(*                                                                         *)
(* Python str values are sequences of one-character strings; a fixed       *)
(* literal of the source (a message prefix, an error text) is one element  *)
(* of such a sequence.  Python/JSON values are tagged records.             *)
(***************************************************************************)
EXTENDS Integers, Sequences, FiniteSets, TLC

\* ------------------------------------------------------------- bounds
\* longest text of a request (system, content), in characters
MaxTextLen == 1
\* longest messages array of a request
MaxMsgs == 2
\* longest standard output of the command, in characters
MaxOutLen == 2

\* ---------------------------------------------------- program constants
\* subprocess.run(..., timeout=120)
timeout == 120

\* ------------------------------------------------------------ Python str
NL == "\n"
\* the characters str.split() and str.strip() treat as whitespace
Whitespace == {" ", NL}
\* the characters requests and command output are drawn from
Chars == {"a", " "}

SeqsUpTo(S, n) == UNION {[1..k -> S] : k \in 0..n}

\* str.strip(): leading and trailing whitespace removed
RECURSIVE LStrip(_)
LStrip(s) ==
    IF s = <<>> THEN <<>>
    ELSE IF Head(s) \in Whitespace THEN LStrip(Tail(s)) ELSE s

RECURSIVE RStrip(_)
RStrip(s) ==
    IF s = <<>> THEN <<>>
    ELSE IF s[Len(s)] \in Whitespace THEN RStrip(SubSeq(s, 1, Len(s) - 1)) ELSE s

\* variant: the output is not stripped
NoStrip(s) == s

Strip(s) == RStrip(LStrip(s))

\* str.split(): the maximal runs of non-whitespace characters, in order.
\* cur is the word being read, or <<>> between words.
RECURSIVE SplitFrom(_, _, _)
SplitFrom(s, cur, acc) ==
    IF s = <<>> THEN (IF cur = <<>> THEN acc ELSE Append(acc, cur))
    ELSE IF Head(s) \in Whitespace
         THEN SplitFrom(Tail(s), <<>>, IF cur = <<>> THEN acc ELSE Append(acc, cur))
         ELSE SplitFrom(Tail(s), Append(cur, Head(s)), acc)

Split(s) == SplitFrom(s, <<>>, <<>>)

\* sep.join(parts) for a list of str
RECURSIVE Join(_, _)
Join(sep, parts) ==
    IF parts = <<>> THEN <<>>
    ELSE IF Len(parts) = 1 THEN parts[1]
    ELSE parts[1] \o sep \o Join(sep, Tail(parts))

\* --------------------------------------------------- Python/JSON values
PyNone == [t |-> "None"]
PyInt(n) == [t |-> "int", n |-> n]
PyStr(s) == [t |-> "str", s |-> s]
PyList(l) == [t |-> "list", l |-> l]
\* a dict is a function from the keys it holds to their values
PyDict(d) == [t |-> "dict", d |-> d]
EmptyDict == [k \in {} |-> PyNone]

\* bool(v): the truth value `if system:` tests
Truthy(v) ==
    CASE v.t = "None" -> FALSE
      [] v.t = "int" -> v.n # 0
      [] v.t = "str" -> v.s # <<>>
      [] v.t = "list" -> v.l # <<>>
      [] v.t = "dict" -> DOMAIN v.d # {}

\* format(v) inside an f-string, for the values a system field holds here
Format(v) ==
    CASE v.t = "str" -> v.s
      [] v.t = "int" -> <<ToString(v.n)>>
      [] v.t = "None" -> <<"None">>

\* d.get(key, default) on a dict
DictGet(d, key, default) == IF key \in DOMAIN d THEN d[key] ELSE default

\* ------------------------------------------------------------ requests
Texts == SeqsUpTo(Chars, MaxTextLen)

\* one entry of "messages": an object with a text content, without content,
\* with a content that is not text, or not an object at all
Entries ==
    {PyDict([content |-> PyStr(s)]) : s \in Texts}
    \cup {PyDict(EmptyDict), PyDict([content |-> PyInt(7)]), PyStr(<<"a">>)}

\* the values of the "messages" key: arrays, null, a string
MessagesValues ==
    {PyList(l) : l \in SeqsUpTo(Entries, MaxMsgs)} \cup {PyNone, PyStr(<<"a">>)}

\* the values of the "system" key: text, a number, null
SystemValues == {PyStr(s) : s \in Texts} \cup {PyInt(7), PyNone}

Objects ==
    {PyDict(EmptyDict)}
    \cup {PyDict([system |-> s]) : s \in SystemValues}
    \cup {PyDict([messages |-> m]) : m \in MessagesValues}
    \cup {PyDict([system |-> s, messages |-> m]) : s \in SystemValues, m \in MessagesValues}

\* what json.loads can return: objects, and documents that are not objects
Documents == Objects \cup {PyList(<<>>), PyNone}

\* the bytes of a request body: none, bytes that are not UTF-8, text that is
\* not JSON, or a JSON document
EmptyBytes == [form |-> "empty", doc |-> PyNone]
Bodies ==
    {EmptyBytes, [form |-> "undecodable", doc |-> PyNone], [form |-> "malformed", doc |-> PyNone]}
    \cup {[form |-> "json", doc |-> d] : d \in Documents}

Methods == {"GET", "POST", "PUT", "DELETE"}
Paths == {"/health", "/v1/messages", "/other"}
Queries == {"", "probe=1"}

\* clen is the Content-Length header: the body's length, absent, or not a number.
\* The two irregular headers come with one body each.
Requests ==
    {[method |-> m, path |-> p, query |-> q, clen |-> "exact", body |-> b] :
        m \in Methods, p \in Paths, q \in Queries, b \in Bodies}
    \cup {[method |-> m, path |-> p, query |-> q, clen |-> c,
           body |-> [form |-> "json", doc |-> PyDict(EmptyDict)]] :
        m \in Methods, p \in Paths, q \in Queries, c \in {"absent", "invalid"}}

NoRequest ==
    [method |-> "", path |-> "", query |-> "", clen |-> "exact", body |-> EmptyBytes]

\* self.path: the request target as sent, query included
RawPath(req) == IF req.query = "" THEN <<req.path>> ELSE <<req.path, "?", req.query>>

\* ----------------------------------------------- the external command
\* The command is not found (subprocess.run raises OSError), or it runs and
\* exits after `elapsed` seconds with a return code and its captured output;
\* a command still running at the timeout has produced nothing that is kept.
Stdouts == SeqsUpTo(Chars, MaxOutLen)
Stderrs == {<<>>, <<"e">>}
NoOutcome == [kind |-> "none", elapsed |-> 0, returncode |-> 0, stdout |-> <<>>, stderr |-> <<>>]
Outcomes ==
    {[kind |-> "oserror", elapsed |-> 0, returncode |-> 0, stdout |-> <<>>, stderr |-> <<>>]}
    \cup {[kind |-> "exit", elapsed |-> timeout - 1, returncode |-> rc, stdout |-> o, stderr |-> e] :
            rc \in {0, 1}, o \in Stdouts, e \in Stderrs}
    \cup {[kind |-> "exit", elapsed |-> timeout + 1, returncode |-> rc, stdout |-> <<>>, stderr |-> <<>>] :
            rc \in {0, 1}}

\* -------------------------------------------------------------- state
VARIABLES
    pc,            \* "idle" between requests, "running" while the command
                   \* runs, "done" once the handler has returned or raised
    request,       \* the request being handled
    body_read,     \* whether do_POST read the request body (self.rfile.read)
    prompt_parts,  \* do_POST's prompt_parts list
    full_prompt,   \* do_POST's full_prompt
    invocations,   \* calls of subprocess.run made for this request
    outcome,       \* what the command did, once subprocess.run has returned or raised
    response,      \* what was written to the client; status 0: nothing was
    uncaught,      \* the exception that left the handler, "" if none
    prev_failed    \* history: the request before this one ended in an error or a failure

vars ==
    <<pc, request, body_read, prompt_parts, full_prompt, invocations, outcome,
      response, uncaught, prev_failed>>

\* ----------------------------------------------------------- responses
EmptyBody == [kind |-> "empty"]
\* json.dumps(obj).encode()
JsonDumps(obj) == [kind |-> "json", obj |-> obj]
JsonType == "application/json"

\* nothing is sent: the server closes the connection of a handler that raised
NoResponse == [status |-> 0, ctype |-> "", body |-> [kind |-> "none"]]

\* send_response(404); end_headers()
NotFound == [status |-> 404, ctype |-> "", body |-> EmptyBody]

\* BaseHTTPRequestHandler.send_error(code, message): the message is the reason
\* phrase and is part of an HTML page, sent as text/html
SendError(code, message) ==
    [status |-> code, ctype |-> "text/html;charset=utf-8",
     body |-> [kind |-> "html", code |-> code, message |-> message]]

\* the 200 of do_GET
HealthResponse ==
    [status |-> 200, ctype |-> JsonType, body |-> JsonDumps([status |-> "ok"])]

\* the three JSON error responses of do_POST
ErrorResponse(code, message) ==
    [status |-> code, ctype |-> JsonType,
     body |-> JsonDumps([error |-> [message |-> message]])]

\* ----------------------------------------------------------- do_POST
\* int(self.headers.get('Content-Length', 0)) raises ValueError on a header
\* that is not a number
ContentLengthRaises(req) == req.clen = "invalid"

\* self.rfile.read(content_length): no Content-Length header reads no bytes
ReadBody(req) == IF req.clen = "absent" THEN EmptyBytes ELSE req.body

\* json.loads(body) on bytes: decodes them as UTF-8, then parses the text
JsonLoads(body) ==
    CASE body.form = "undecodable" ->
            [exc |-> "UnicodeDecodeError", msg |-> <<>>, value |-> PyNone]
      [] body.form = "empty" ->
            [exc |-> "JSONDecodeError",
             msg |-> <<"Expecting value: line 1 column 1 (char 0)">>, value |-> PyNone]
      [] body.form = "malformed" ->
            [exc |-> "JSONDecodeError",
             msg |-> <<"Expecting property name enclosed in double quotes: line 1 column 2 (char 1)">>,
             value |-> PyNone]
      [] body.form = "json" -> [exc |-> "", msg |-> <<>>, value |-> body.doc]

\* f'Invalid JSON: {e}'
InvalidJsonMessage(msg) == <<"Invalid JSON: ">> \o msg

\* prompt_parts = []
InitialParts == <<>>

\* variant: the system part without its newline
SystemPartBare(system) == PyStr(Format(system))

\* f"{system}\n"
SystemPart(system) == PyStr(Format(system) \o <<NL>>)

\* if system: prompt_parts.append(...)
WithSystem(parts, system) ==
    IF Truthy(system) THEN Append(parts, SystemPart(system)) ELSE parts

\* what `for msg in messages` iterates over, for a list or a str
Items(v) ==
    CASE v.t = "list" -> v.l
      [] v.t = "str" -> [i \in 1..Len(v.s) |-> PyStr(<<v.s[i]>>)]

\* the loop: msg.get raises AttributeError on an entry that is not a dict
RECURSIVE AppendContents(_, _)
AppendContents(parts, msgs) ==
    IF msgs = <<>> THEN [exc |-> "", parts |-> parts]
    ELSE IF Head(msgs).t # "dict" THEN [exc |-> "AttributeError", parts |-> parts]
    ELSE AppendContents(
            Append(parts, DictGet(Head(msgs).d, "content", PyStr(<<>>))), Tail(msgs))

\* '\n'.join(prompt_parts): TypeError on a part that is not a str
JoinParts(parts) ==
    IF \E i \in 1..Len(parts) : parts[i].t # "str"
    THEN [exc |-> "TypeError", parts |-> parts, prompt |-> <<>>]
    ELSE [exc |-> "", parts |-> parts,
          prompt |-> Join(<<NL>>, [i \in 1..Len(parts) |-> parts[i].s])]

\* "Extract the prompt" and "Build the prompt", from a prompt_parts list `initial`
BuildPromptFrom(initial, data) ==
    IF data.t # "dict"
    THEN [exc |-> "AttributeError", parts |-> <<>>, prompt |-> <<>>]
    ELSE LET messages == DictGet(data.d, "messages", PyList(<<>>))
             system == DictGet(data.d, "system", PyStr(<<>>))
             parts0 == WithSystem(initial, system)
         IN  IF messages.t \notin {"list", "str"}
             THEN [exc |-> "TypeError", parts |-> parts0, prompt |-> <<>>]
             ELSE LET r == AppendContents(parts0, Items(messages))
                  IN  IF r.exc # ""
                      THEN [exc |-> r.exc, parts |-> r.parts, prompt |-> <<>>]
                      ELSE JoinParts(r.parts)

BuildPrompt(data) == BuildPromptFrom(InitialParts, data)

\* variant: do_POST handles every path
AnyPath(req) == TRUE

\* do_POST's route: self.path == '/v1/messages'
IsMessagesPath(req) == RawPath(req) = <<"/v1/messages">>

\* do_GET's route: self.path == '/health'
IsHealthPath(req) == RawPath(req) = <<"/health">>

\* do_POST up to the call of subprocess.run: where the handler stands then
PostBegin(req) ==
    LET stop(resp, exc, read) ==
            [pc |-> "done", response |-> resp, uncaught |-> exc, body_read |-> read,
             parts |-> <<>>, prompt |-> <<>>, invocations |-> 0]
    IN  IF ~IsMessagesPath(req) THEN stop(NotFound, "", FALSE)
        ELSE IF ContentLengthRaises(req) THEN stop(NoResponse, "ValueError", FALSE)
        ELSE LET loaded == JsonLoads(ReadBody(req))
             IN  IF loaded.exc = "JSONDecodeError"
                 THEN stop(SendError(400, InvalidJsonMessage(loaded.msg)), "", TRUE)
                 ELSE IF loaded.exc # "" THEN stop(NoResponse, loaded.exc, TRUE)
                 ELSE LET built == BuildPrompt(loaded.value)
                      IN  IF built.exc # "" THEN stop(NoResponse, built.exc, TRUE)
                          ELSE [pc |-> "running", response |-> NoResponse, uncaught |-> "",
                                body_read |-> TRUE, parts |-> built.parts,
                                prompt |-> built.prompt, invocations |-> 1]

\* subprocess.run raises TimeoutExpired: the command is still running at the timeout
TimeoutExpired(o) == o.kind = "exit" /\ o.elapsed > timeout

\* variant: the error message without the command's standard error
CliErrorBare(stderr) == <<"Claude CLI error">>

\* f"Claude CLI error: {result.stderr}"
CliErrorMessage(stderr) == <<"Claude CLI error: ">> \o stderr

\* variant: TimeoutExpired handled by `except Exception`, as a 500 with str(e)
TimeoutAsGeneric ==
    ErrorResponse(500, <<"Command '['claude', '-p', ...]' timed out after 120 seconds">>)

\* the 504 of `except subprocess.TimeoutExpired`
TimeoutResponse == ErrorResponse(504, <<"Claude CLI timeout">>)

\* the 500 of `except Exception`, with str(e) of the OSError of a missing command
GenericResponse ==
    ErrorResponse(500, <<"[Errno 2] No such file or directory: 'claude'">>)

\* the 200: the response dict "in Anthropic API format"
ChatResponse(prompt, response_text) ==
    [status |-> 200, ctype |-> JsonType,
     body |-> JsonDumps(
        [content |-> <<[type |-> "text", text |-> response_text]>>,
         model |-> "claude-cli",
         usage |-> [input_tokens |-> Len(Split(prompt)),
                    output_tokens |-> Len(Split(response_text))]])]

\* do_POST from the call of subprocess.run on
PostEnd(prompt, o) ==
    IF o.kind = "oserror" THEN GenericResponse
    ELSE IF TimeoutExpired(o) THEN TimeoutResponse
    ELSE LET response_text == Strip(o.stdout)
         IN  IF o.returncode # 0
             THEN ErrorResponse(500, CliErrorMessage(o.stderr))
             ELSE ChatResponse(prompt, response_text)

\* ------------------------------------------------------------- actions
\* an error status, or no response at all
Failed(resp) == resp.status \in {0, 400, 500, 504}

\* HTTPServer hands the next connection to a new ClaudeProxyHandler
Accept(req) ==
    /\ request' = req
    /\ UNCHANGED <<outcome, prev_failed>>

Init ==
    /\ pc = "idle"
    /\ request = NoRequest
    /\ body_read = FALSE
    /\ prompt_parts = <<>>
    /\ full_prompt = <<>>
    /\ invocations = 0
    /\ outcome = NoOutcome
    /\ response = NoResponse
    /\ uncaught = ""
    /\ prev_failed = FALSE

do_GET ==
    /\ pc = "idle"
    /\ \E req \in Requests :
        /\ req.method = "GET"
        /\ Accept(req)
        /\ response' = IF IsHealthPath(req) THEN HealthResponse ELSE NotFound
        /\ pc' = "done"
        /\ body_read' = FALSE
        /\ prompt_parts' = <<>>
        /\ full_prompt' = <<>>
        /\ invocations' = 0
        /\ uncaught' = ""

\* do_POST until it returns, raises, or calls subprocess.run
do_POST ==
    /\ pc = "idle"
    /\ \E req \in Requests :
        /\ req.method = "POST"
        /\ Accept(req)
        /\ LET h == PostBegin(req)
           IN  /\ pc' = h.pc
               /\ response' = h.response
               /\ uncaught' = h.uncaught
               /\ body_read' = h.body_read
               /\ prompt_parts' = h.parts
               /\ full_prompt' = h.prompt
               /\ invocations' = h.invocations

\* subprocess.run returns or raises, and do_POST runs to its end
subprocess_run ==
    /\ pc = "running"
    /\ \E o \in Outcomes :
        /\ outcome' = o
        /\ response' = PostEnd(full_prompt, o)
        /\ pc' = "done"
        /\ UNCHANGED <<request, body_read, prompt_parts, full_prompt, invocations,
                       uncaught, prev_failed>>

\* BaseHTTPRequestHandler finds no do_<METHOD>: send_error(501, ...)
unsupported_method ==
    /\ pc = "idle"
    /\ \E req \in Requests :
        /\ req.method \notin {"GET", "POST"}
        /\ Accept(req)
        /\ response' = SendError(501, <<"Unsupported method ('", req.method, "')">>)
        /\ pc' = "done"
        /\ body_read' = FALSE
        /\ prompt_parts' = <<>>
        /\ full_prompt' = <<>>
        /\ invocations' = 0
        /\ uncaught' = ""

\* variant: a handler that raised takes the server down
ServerDiesOnException(exc) == exc = ""

\* serve_forever survives a handler that raised: socketserver catches every
\* Exception of a request, reports it and closes that request's connection
ServerSurvives(exc) == TRUE

\* the request is over: its handler and everything it held are discarded
shutdown_request ==
    /\ pc = "done"
    /\ ServerSurvives(uncaught)
    /\ pc' = "idle"
    /\ prev_failed' = Failed(response)
    /\ request' = NoRequest
    /\ body_read' = FALSE
    /\ prompt_parts' = <<>>
    /\ full_prompt' = <<>>
    /\ invocations' = 0
    /\ outcome' = NoOutcome
    /\ response' = NoResponse
    /\ uncaught' = ""

Next == do_GET \/ do_POST \/ subprocess_run \/ unsupported_method \/ shutdown_request

Spec == Init /\ [][Next]_vars

\* ===================================================== the claims
\* the request is a POST whose target is exactly /v1/messages
MessagesPost ==
    request.method = "POST" /\ request.path = "/v1/messages" /\ request.query = ""

\* the request body reached do_POST whole and is a JSON document
JsonBody == request.clen = "exact" /\ request.body.form = "json"

\* a ChatRequest: an object whose system, if present, is text and whose
\* messages, if present, is an array of objects each with a text content
IsChatRequest(doc) ==
    /\ doc.t = "dict"
    /\ "system" \in DOMAIN doc.d => doc.d.system.t = "str"
    /\ "messages" \in DOMAIN doc.d =>
          /\ doc.d.messages.t = "list"
          /\ \A i \in 1..Len(doc.d.messages.l) :
                LET e == doc.d.messages.l[i]
                IN  e.t = "dict" /\ "content" \in DOMAIN e.d /\ e.d.content.t = "str"

\* the message contents of a ChatRequest, in input order
ContentsOf(doc) ==
    IF "messages" \in DOMAIN doc.d
    THEN [i \in 1..Len(doc.d.messages.l) |-> doc.d.messages.l[i].d.content.s]
    ELSE <<>>

\* the texts cs, one per line: a newline between each two, none at the end
RECURSIVE Lines(_)
Lines(cs) ==
    IF cs = <<>> THEN <<>>
    ELSE IF Len(cs) = 1 THEN cs[1]
    ELSE Lines(SubSeq(cs, 1, Len(cs) - 1)) \o <<NL>> \o cs[Len(cs)]

\* the prompt of a ChatRequest whose system text counts as present iff hasSystem
PromptWith(hasSystem, doc) ==
    IF hasSystem
    THEN IF ContentsOf(doc) = <<>>
         THEN doc.d.system.s \o <<NL>>
         ELSE doc.d.system.s \o <<NL, NL>> \o Lines(ContentsOf(doc))
    ELSE Lines(ContentsOf(doc))

ChatPost == MessagesPost /\ JsonBody /\ IsChatRequest(request.body.doc)

\* C1 as stated: for a POST /v1/messages whose body is a ChatRequest the
\* command is called with: the system text and a blank line, then the message
\* contents one per line, if a system key is present (the system text and one
\* newline if there are no messages); the contents one per line if it is not.
C1_Original ==
    (ChatPost /\ pc \in {"running", "done"}) =>
        /\ invocations = 1
        /\ full_prompt =
              PromptWith("system" \in DOMAIN request.body.doc.d, request.body.doc)

\* C1 amended: the same, with a system text counting as present only when it
\* is not empty; an empty system text is treated like a missing system key.
C1_Amended ==
    (ChatPost /\ pc \in {"running", "done"}) =>
        /\ invocations = 1
        /\ full_prompt =
              PromptWith(/\ "system" \in DOMAIN request.body.doc.d
                         /\ request.body.doc.d.system.s # <<>>,
                         request.body.doc)

\* system "a" with the messages "a" and " ": the command is about to run
\* with the prompt "a\n\na\n "
C1_Witness ==
    /\ pc = "running"
    /\ ChatPost
    /\ request.body.doc =
          PyDict([system |-> PyStr(<<"a">>),
                  messages |-> PyList(<<PyDict([content |-> PyStr(<<"a">>)]),
                                        PyDict([content |-> PyStr(<<" ">>)])>>)])
    /\ full_prompt = <<"a", NL, NL, "a", NL, " ">>

\* the command of this request ran and exited within the time bound
Exited == pc = "done" /\ invocations >= 1 /\ outcome.kind = "exit" /\ outcome.elapsed <= 120

IsBlank(s) == \A k \in 1..Len(s) : s[k] \in Whitespace

\* t is s without its leading and trailing whitespace
IsTrimOf(t, s) ==
    /\ t # <<>> => (t[1] \notin Whitespace /\ t[Len(t)] \notin Whitespace)
    /\ \E i \in 0..Len(s) : \E j \in i..Len(s) :
          /\ SubSeq(s, i + 1, j) = t
          /\ IsBlank(SubSeq(s, 1, i))
          /\ IsBlank(SubSeq(s, j + 1, Len(s)))

\* the number of whitespace-delimited words of s: the places where one starts
WordCount(s) ==
    Cardinality({i \in 1..Len(s) :
                    s[i] \notin Whitespace /\ (i = 1 \/ s[i - 1] \in Whitespace)})

\* C2: when the command exits with status zero within the time bound, the
\* response is a 200 whose content is exactly one text block holding the
\* trimmed standard output, whose model is "claude-cli", and whose usage
\* counts the words of the prompt and of the generated text.
C2_Theorem ==
    (Exited /\ outcome.returncode = 0) =>
        /\ response.status = 200
        /\ response.body.kind = "json"
        /\ LET o == response.body.obj
           IN  /\ DOMAIN o = {"content", "model", "usage"}
               /\ Len(o.content) = 1
               /\ o.content[1].type = "text"
               /\ IsTrimOf(o.content[1].text, outcome.stdout)
               /\ o.model = "claude-cli"
               /\ o.usage.input_tokens = WordCount(full_prompt)
               /\ o.usage.output_tokens = WordCount(o.content[1].text)

\* the command printed " a" and exited 0 for a prompt of two words: the
\* generated text is "a" and counts one word
C2_Witness ==
    /\ Exited /\ outcome.returncode = 0
    /\ outcome.stdout = <<" ", "a">>
    /\ response.status = 200
    /\ response.body.obj.content = <<[type |-> "text", text |-> <<"a">>]>>
    /\ response.body.obj.usage = [input_tokens |-> 2, output_tokens |-> 1]

\* C3 as stated: a POST /v1/messages whose body is a JSON document of any
\* shape never ends without a response; a failure while handling it is
\* caught and answered.
C3_Claim ==
    (pc = "done" /\ MessagesPost /\ JsonBody) =>
        (uncaught = "" /\ response.status # 0)

\* the JSON error body {"error": {"message": <text>}}
IsErrorBody(body) ==
    /\ body.kind = "json"
    /\ DOMAIN body.obj = {"error"}
    /\ DOMAIN body.obj.error = {"message"}

\* C4 as stated: every 400, 500 or 504 response carries the JSON body
\* {"error": {"message": <text>}}.
C4_Claim == response.status \in {400, 500, 504} => IsErrorBody(response.body)

\* s occurs in m as a run of consecutive elements
Contains(m, s) ==
    \E i \in 0..(Len(m) - Len(s)) : SubSeq(m, i + 1, i + Len(s)) = s

\* C5 as stated: a POST /v1/messages whose body is not parseable as JSON is
\* answered 400 with a message that names the parse failure, and the command
\* is not run.
C5_Claim ==
    (pc = "done" /\ MessagesPost /\ request.clen = "exact" /\ request.body.form # "json") =>
        /\ response.status = 400
        /\ Contains(response.body.message, <<"Invalid JSON: ">>)
        /\ invocations = 0

\* C6: when the command exits with a non-zero status, the response is a 500
\* whose error message contains the command's standard error, it carries no
\* generated text, and the command was run exactly once.
C6_Theorem ==
    (Exited /\ outcome.returncode # 0) =>
        /\ response.status = 500
        /\ IsErrorBody(response.body)
        /\ Contains(response.body.obj.error.message, outcome.stderr)
        /\ invocations = 1

\* the command printed "a", wrote "e" to standard error and exited 1
C6_Witness ==
    /\ Exited /\ outcome.returncode = 1
    /\ outcome.stderr = <<"e">> /\ outcome.stdout = <<"a">>
    /\ response.status = 500
    /\ response.body.obj.error.message = <<"Claude CLI error: ", "e">>

\* the command of this request was still running after 120 seconds
TimedOut == pc = "done" /\ invocations >= 1 /\ outcome.kind = "exit" /\ outcome.elapsed > 120

\* C7: a command that exceeds 120 seconds is answered 504 with the message
\* "Claude CLI timeout"; no other request is answered 504, and no 500
\* carries the timeout message.
C7_Theorem ==
    /\ TimedOut =>
          /\ response.status = 504
          /\ IsErrorBody(response.body)
          /\ response.body.obj.error.message = <<"Claude CLI timeout">>
    /\ response.status = 504 => TimedOut
    /\ response.status = 500 =>
          /\ ~TimedOut
          /\ response.body.obj.error.message # <<"Claude CLI timeout">>

\* a command that ran past the time bound was answered 504
C7_Witness == TimedOut /\ outcome.elapsed = 121 /\ response.status = 504

\* C8 as stated: every GET whose path is /health, with or without a query,
\* is answered 200 {"status": "ok"} whatever its body, and runs no command.
C8_Claim ==
    (pc = "done" /\ request.method = "GET" /\ request.path = "/health") =>
        /\ response = HealthResponse
        /\ invocations = 0

\* the request's method and path are not one of the two routes
Unrouted ==
    /\ pc = "done"
    /\ ~(request.method = "GET" /\ request.path = "/health")
    /\ ~(request.method = "POST" /\ request.path = "/v1/messages")

IsolatedResponse(req, o) ==
    IF req.method \notin {"GET", "POST"}
    THEN SendError(501, <<"Unsupported method ('", req.method, "')">>)
    ELSE IF req.method = "GET"
    THEN (IF req.path = "/health" /\ req.query = "" THEN HealthResponse ELSE NotFound)
    ELSE IF ~(req.path = "/v1/messages" /\ req.query = "") THEN NotFound
    ELSE IF req.clen = "invalid" THEN NoResponse
    ELSE IF req.clen = "absent" \/ req.body.form \in {"empty", "malformed"}
    THEN SendError(400, <<"Invalid JSON: ">> \o JsonLoads(ReadBody(req)).msg)
    ELSE IF req.body.form = "undecodable" THEN NoResponse
    ELSE LET built == BuildPromptFrom(<<>>, req.body.doc)
         IN  IF built.exc # "" THEN NoResponse ELSE PostEnd(built.prompt, o)

\* C10: whatever came before, a handled request's response is the one a
\* server holding nothing from earlier requests gives to this request and
\* this command outcome; the server then closes the request and, idle again,
\* holds nothing of it and accepts the next request.
C10_Theorem ==
    /\ pc = "done" =>
          /\ response = IsolatedResponse(request, outcome)
          /\ ENABLED shutdown_request
    /\ pc = "idle" =>
          /\ <<request, body_read, prompt_parts, full_prompt, invocations, outcome,
               response, uncaught>>
                = <<NoRequest, FALSE, <<>>, <<>>, 0, NoOutcome, NoResponse, "">>
          /\ ENABLED (do_GET \/ do_POST \/ unsupported_method)

\* the request before ended in an error or without a response, and this one
\* was answered 200 with generated text
C10_Witness ==
    /\ pc = "done" /\ prev_failed
    /\ Exited /\ outcome.returncode = 0
    /\ response.status = 200

=============================================================================
